---- MODULE Spec2Model ----
(***************************************************************************)
(* Model of Metacritic-games-scraper.py: the record extractor              *)
(* (extract_game_data), the two pagination loops (the unfiltered listing   *)
(* and one loop per platform), the per-platform export, and                *)
(* merge_platform_dfs followed by the final export.                        *)
(*                                                                         *)
(* Text is a sequence of lexemes (strings).  Titles are spelled character  *)
(* by character, because the title prefix is removed by a regular          *)
(* expression over characters; metadata text is spelled token by token     *)
(* ("Jan", " ", "5", ",", " ", "2020").                                    *)
(***************************************************************************)
EXTENDS Integers, Sequences, FiniteSets, TLC

VARIABLES pc, page, all_games_data, soup, page_data, df, platform_i,
          platforms_dfs, main_platforms, main_platform_scores, cursor,
          files, exc, log

vars == <<pc, page, all_games_data, soup, page_data, df, platform_i,
          platforms_dfs, main_platforms, main_platform_scores, cursor,
          files, exc, log>>

(***************************************************************************)
(* Bounds.                                                                 *)
(***************************************************************************)
\* Pages with listings that a whole run fetches before the model stops
\* tracking further pages (the loops themselves have no page limit).
MaxFetches == 3

\* How many of the 23 platforms of the list a run collects.
NumPlatforms == 2

\* Listing fragments of the page extract_game_data is applied to on its own.
MaxListings == 1

(***************************************************************************)
(* Text helpers.                                                           *)
(***************************************************************************)
Range(s) == {s[i] : i \in DOMAIN s}

Whitespace == {" ", "\n"}

Digits == {"0", "1", "2", "3", "4", "5", "6", "7", "8", "9"}

RECURSIVE LStrip(_)
LStrip(s) ==
    IF s # <<>> /\ Head(s) \in Whitespace THEN LStrip(Tail(s)) ELSE s

RECURSIVE RStrip(_)
RStrip(s) ==
    IF s # <<>> /\ s[Len(s)] \in Whitespace
    THEN RStrip(SubSeq(s, 1, Len(s) - 1))
    ELSE s

\* str.strip()
Strip(s) == RStrip(LStrip(s))

RECURSIVE Flatten(_)
Flatten(ss) == IF ss = <<>> THEN <<>> ELSE Head(ss) \o Flatten(Tail(ss))

RECURSIVE Join(_, _)
Join(ss, sep) ==
    IF ss = <<>> THEN <<>>
    ELSE IF Len(ss) = 1 THEN Head(ss)
    ELSE Head(ss) \o sep \o Join(Tail(ss), sep)

\* str.split(sep): always at least one piece, "" for the empty string.
RECURSIVE Split(_, _)
Split(s, sep) ==
    IF \E i \in DOMAIN s : s[i] = sep
    THEN LET i == CHOOSE j \in DOMAIN s :
                      s[j] = sep /\ \A k \in 1..(j - 1) : s[k] # sep
         IN  <<SubSeq(s, 1, i - 1)>> \o Split(SubSeq(s, i + 1, Len(s)), sep)
    ELSE <<s>>

RECURSIVE StrippedNodes(_)
StrippedNodes(nodes) ==
    IF nodes = <<>> THEN <<>>
    ELSE IF Strip(Head(nodes)) = <<>> THEN StrippedNodes(Tail(nodes))
    ELSE <<Strip(Head(nodes))>> \o StrippedNodes(Tail(nodes))

\* Tag.get_text(): the text nodes joined as they are.
get_text(section) == Flatten(section.nodes)

\* Tag.get_text(strip=True, separator=sep): every text node stripped, the
\* empty ones dropped, the rest joined by sep.
get_text_strip(section, sep) == Join(StrippedNodes(section.nodes), sep)

(***************************************************************************)
(* Sentinels of extract_game_data.                                         *)
(***************************************************************************)
TitleNotFound == <<"Title not found">>
Unknown == <<"Unknown">>
RatingNotFound == <<"Rating not found">>
DescriptionNotFound == <<"Description not found">>
MetascoreNotAvailable == <<"Metascore not available">>

Fields == {"title", "release_date", "rating", "description", "metascore"}

(***************************************************************************)
(* A listing fragment (one <a class="c-finderProductCard_container">) is   *)
(* its four sub-fragments; a sub-fragment is absent, or present with its   *)
(* text nodes.                                                             *)
(***************************************************************************)
Absent == [present |-> FALSE, nodes |-> <<>>]
Section(nodes) == [present |-> TRUE, nodes |-> nodes]

\* Length of the leading run of digits.
RECURSIVE DigitRun(_)
DigitRun(s) ==
    IF s # <<>> /\ Head(s) \in Digits THEN 1 + DigitRun(Tail(s)) ELSE 0

\* (,\d{3})* taken greedily: what is left after the groups.
RECURSIVE SkipGroups(_)
SkipGroups(s) ==
    IF /\ Len(s) >= 4
       /\ s[1] = ","
       /\ \A i \in 2..4 : s[i] \in Digits
    THEN SkipGroups(SubSeq(s, 5, Len(s)))
    ELSE s

\* re.sub(r"^\d{1,3}(,\d{3})*\.", "", s): the prefix is removed when the
\* text starts with one to three digits, then groups of a comma and three
\* digits, then a period.
StripPrefix(s) ==
    LET n    == DigitRun(s)
        rest == SkipGroups(SubSeq(s, n + 1, Len(s)))
    IN  IF n \in 1..3 /\ rest # <<>> /\ Head(rest) = "."
        THEN Tail(rest)
        ELSE s

extract_title(title_section) ==
    IF title_section.present
    THEN Strip(StripPrefix(get_text_strip(title_section, <<>>)))
    ELSE TitleNotFound

\* The tokens datetime.strptime(_, "%b %d, %Y") accepts for %b, %d and %Y,
\* and what strftime("%Y-%m-%d") prints for them.
MonthText == ("Jan" :> "01") @@ ("Feb" :> "02")
DaysInMonth == ("Jan" :> 31) @@ ("Feb" :> 29)
DayNumber == ("5" :> 5) @@ ("05" :> 5) @@ ("30" :> 30)
DayText == ("5" :> "05") @@ ("05" :> "05") @@ ("30" :> "30")
YearTokens == {"2020"}

\* datetime.strptime(s, "%b %d, %Y"): a blank of the format matches one or
\* more blanks; a day the month does not have is a ValueError.
strptime(s) ==
    LET a == IF s = <<>> THEN <<>> ELSE Tail(s)
        b == LStrip(a)
        c == IF b = <<>> THEN <<>> ELSE Tail(b)
        d == IF c = <<>> THEN <<>> ELSE Tail(c)
        e == LStrip(d)
        ok == /\ s # <<>> /\ Head(s) \in DOMAIN MonthText
              /\ a # <<>> /\ Head(a) \in Whitespace
              /\ b # <<>> /\ Head(b) \in DOMAIN DayNumber
              /\ c # <<>> /\ Head(c) = ","
              /\ d # <<>> /\ Head(d) \in Whitespace
              /\ Len(e) = 1 /\ Head(e) \in YearTokens
              /\ DayNumber[Head(b)] <= DaysInMonth[Head(s)]
    IN  IF ok
        THEN [ok |-> TRUE, year |-> Head(e), month |-> Head(s), day |-> Head(b)]
        ELSE [ok |-> FALSE, year |-> "", month |-> "", day |-> ""]

strftime(date) == <<date.year, "-", MonthText[date.month], "-", DayText[date.day]>>

RECURSIVE SelectWithComma(_)
SelectWithComma(meta_info) ==
    IF meta_info = <<>> THEN <<>>
    ELSE IF "," \in Range(Head(meta_info))
    THEN <<Strip(Head(meta_info))>> \o SelectWithComma(Tail(meta_info))
    ELSE SelectWithComma(Tail(meta_info))

\* Lines 100, 104-116: "Unknown" unless the metadata is there, one of its
\* tokens holds a comma (else IndexError) and the first of them parses
\* (else ValueError).
extract_release_date(meta_info_section) ==
    IF ~meta_info_section.present THEN Unknown
    ELSE LET meta_info == Split(get_text_strip(meta_info_section, <<"|">>), "|")
             dated     == SelectWithComma(meta_info)
         IN  IF dated = <<>> THEN Unknown
             ELSE IF strptime(dated[1]).ok THEN strftime(strptime(dated[1]))
             ELSE Unknown

\* \w+ : a lexeme that is neither blank nor punctuation.
Punctuation == {",", ".", "|", "-", ":"}
IsWord(x) == x \notin Whitespace /\ x \notin Punctuation

RECURSIVE WordRun(_)
WordRun(s) ==
    IF s # <<>> /\ IsWord(Head(s)) THEN <<Head(s)>> \o WordRun(Tail(s)) ELSE <<>>

\* re.search(r"Rated\s+(\w+)", s): group 1 of the leftmost match, or no
\* match.
RECURSIVE search_rated(_)
search_rated(s) ==
    IF s = <<>> THEN [found |-> FALSE, group |-> <<>>]
    ELSE LET after == LStrip(Tail(s))
         IN  IF /\ Head(s) = "Rated"
                /\ Tail(s) # <<>> /\ Head(Tail(s)) \in Whitespace
                /\ WordRun(after) # <<>>
             THEN [found |-> TRUE, group |-> WordRun(after)]
             ELSE search_rated(Tail(s))

extract_rating(meta_info_section) ==
    IF ~meta_info_section.present THEN RatingNotFound
    ELSE LET match == search_rated(get_text(meta_info_section))
         IN  IF match.found THEN match.group ELSE RatingNotFound

extract_description(description_section) ==
    IF description_section.present
    THEN get_text_strip(description_section, <<>>)
    ELSE DescriptionNotFound

extract_metascore(metascore_section) ==
    IF metascore_section.present
    THEN get_text_strip(metascore_section, <<>>)
    ELSE MetascoreNotAvailable

\* One iteration of the loop of extract_game_data: the record of a listing.
extract_game(game) ==
    [title        |-> extract_title(game.title_section),
     release_date |-> extract_release_date(game.meta_info_section),
     rating       |-> extract_rating(game.meta_info_section),
     description  |-> extract_description(game.description_section),
     metascore    |-> extract_metascore(game.metascore_section)]

\* soup.find_all("a", class_="c-finderProductCard_container")
find_all(s) == s.listings

extract_game_data(s) == [i \in DOMAIN find_all(s) |-> extract_game(find_all(s)[i])]

(***************************************************************************)
(* The listing service: what a request may return.                         *)
(***************************************************************************)
GameX == <<"G", "a", "m", "e", " ", "X">>
Gamex == <<"g", "a", "m", "e", " ", "x">>

Listing(title, score) ==
    [title_section       |-> Section(<<title>>),
     meta_info_section   |-> Section(<<<<"Jan", " ", "5", ",", " ", "2020">>,
                                       <<"Rated", " ", "M">>>>),
     description_section |-> Absent,
     metascore_section   |-> Section(<<<<score>>>>)]

\* A page with two different titles (one differing from the other in letter
\* case only), numbered as the listing numbers them, and a page that lists
\* one title twice with different scores.
PageA == <<Listing(<<"1", ".", " ">> \o GameX, "85"),
           Listing(<<"2", ".", " ">> \o Gamex, "70")>>
PageB == <<Listing(GameX, "90"), Listing(GameX, "85")>>
PageDocs == {<<>>, PageA, PageB}

\* requests.get raised (no connection, timeout, ...): there is no response.
ConnectionFailure == [raised |-> TRUE, status_code |-> 0, content |-> <<>>]
HttpResponse(code, doc) == [raised |-> FALSE, status_code |-> code, content |-> doc]
Responses ==
    {ConnectionFailure, HttpResponse(404, PageA)}
        \cup {HttpResponse(200, doc) : doc \in PageDocs}

None == [parsed |-> FALSE, listings |-> <<>>]
BeautifulSoup(content) == [parsed |-> TRUE, listings |-> content]

\* fetch_and_parse for a request that returned: the parsed page on status
\* 200, None otherwise.
fetch_and_parse(response) ==
    IF response.status_code = 200
    THEN BeautifulSoup(response.content)
    ELSE None

\* The two breaks of a pagination loop: "if not soup" (a BeautifulSoup object
\* is always true, None is not) and "if not game_listings".
LoopBreaksOnNone(s) == ~s.parsed
LoopBreaks(s) == ~s.parsed \/ find_all(s) = <<>>

\* all_games_data.extend(page_data)
extend(data, more) == data \o more

\* page += 1
SamePage(n) == n
NextPage(n) == n + 1

(***************************************************************************)
(* The platforms (the first NumPlatforms of the list), the scopes and the  *)
(* files.                                                                  *)
(***************************************************************************)
AllPlatforms ==
    <<"ps5", "xbox-series-x", "nintendo-switch", "pc", "mobile", "3ds",
      "dreamcast", "ds", "gba", "gamecube", "meta-quest", "nintendo-64",
      "ps1", "ps2", "ps3", "ps4", "psp", "ps-vita", "wii", "wii-u", "xbox",
      "xbox-360", "xbox-one">>
platforms == SubSeq(AllPlatforms, 1, NumPlatforms)

\* The scope of the unfiltered listing.
AllGames == "all"

MainFile == <<"metacritic_games_data.csv">>
PlatformFile(platform) == <<"platforms/metacritic_games_data_", platform, ".csv">>
FileNames == {MainFile} \cup {PlatformFile(platforms[i]) : i \in DOMAIN platforms}

NotWritten ==
    [written |-> FALSE, rows |-> <<>>, platforms |-> <<>>, platform_scores |-> <<>>]
Table(rows, plats, scores) ==
    [written |-> TRUE, rows |-> rows, platforms |-> plats, platform_scores |-> scores]

\* DataFrame.to_csv(name, index=False)
to_csv_main(fs, name, table) == [fs EXCEPT ![MainFile] = table]
to_csv(fs, name, table) == [fs EXCEPT ![name] = table]

\* create_dfs(names): an empty DataFrame per name.
create_dfs(names) == [i \in DOMAIN names |-> <<>>]

\* What the run did to the outside, in order: the requests with what came
\* back, and the files written.
FetchEvent(scope, n, response) ==
    [ev |-> "fetch", scope |-> scope, page |-> n, response |-> response]
ExportEvent(scope) ==
    [ev |-> "export", scope |-> scope, page |-> 0, response |-> ConnectionFailure]

IsPageWithListings(response) ==
    ~response.raised /\ ~LoopBreaks(fetch_and_parse(response))

\* Pages with listings fetched so far.
Fetched == Cardinality({i \in DOMAIN log : /\ log[i].ev = "fetch"
                                           /\ IsPageWithListings(log[i].response)})

Init ==
    /\ pc = "baseline_loop"
    /\ page = 1
    /\ all_games_data = <<>>
    /\ soup = None
    /\ page_data = <<>>
    /\ df = <<>>
    /\ platform_i = 0
    /\ platforms_dfs = <<>>
    /\ main_platforms = <<>>
    /\ main_platform_scores = <<>>
    /\ cursor = [platform |-> 0, row |-> 0, match |-> 0]
    /\ files = [name \in FileNames |-> NotWritten]
    /\ exc = "none"
    /\ log = <<>>

\* One iteration of a pagination loop of the scope, on the response to its
\* request; `after` is where the loop's break leads.
LoopBody(scope, response, after) ==
    /\ log' = Append(log, FetchEvent(scope, page, response))
    /\ IF response.raised
       THEN /\ pc' = "aborted"
            /\ exc' = "ConnectionError"
            /\ UNCHANGED <<page, all_games_data, soup, page_data>>
       ELSE /\ soup' = fetch_and_parse(response)
            /\ exc' = exc
            /\ IF LoopBreaks(soup')
               THEN /\ pc' = after
                    /\ UNCHANGED <<page, all_games_data, page_data>>
               ELSE /\ page_data' = extract_game_data(soup')
                    /\ all_games_data' = extend(all_games_data, page_data')
                    /\ page' = NextPage(page)
                    /\ pc' = pc

\* Lines 166-194.
BaselineIteration ==
    /\ pc = "baseline_loop"
    /\ \E response \in Responses :
          /\ IsPageWithListings(response) => Fetched < MaxFetches
          /\ LoopBody(AllGames, response, "baseline_export")
    /\ UNCHANGED <<df, platform_i, platforms_dfs, main_platforms,
                   main_platform_scores, cursor, files>>

\* Lines 197-203 and 258.
BaselineExport ==
    /\ pc = "baseline_export"
    /\ df' = all_games_data
    /\ files' = to_csv(files, MainFile, Table(df', <<>>, <<>>))
    /\ platforms_dfs' = create_dfs(platforms)
    /\ log' = Append(log, ExportEvent(AllGames))
    /\ pc' = "platform_next"
    /\ UNCHANGED <<page, all_games_data, soup, page_data, platform_i,
                   main_platforms, main_platform_scores, cursor, exc>>

\* Line 268: the list a platform's loop starts with.
ForgetReset(previous) == previous
NewGamesData(previous) == <<>>

\* Lines 267-269: the next platform of the list.
PlatformBegin ==
    /\ pc = "platform_next"
    /\ platform_i < Len(platforms)
    /\ platform_i' = platform_i + 1
    /\ all_games_data' = NewGamesData(all_games_data)
    /\ page' = 1
    /\ pc' = "platform_loop"
    /\ UNCHANGED <<soup, page_data, df, platforms_dfs, main_platforms,
                   main_platform_scores, cursor, files, exc, log>>

\* Lines 272-299.
PlatformIteration ==
    /\ pc = "platform_loop"
    /\ \E response \in Responses :
          /\ IsPageWithListings(response) => Fetched < MaxFetches
          /\ LoopBody(platforms[platform_i], response, "platform_store")
    /\ UNCHANGED <<df, platform_i, platforms_dfs, main_platforms,
                   main_platform_scores, cursor, files>>

\* Lines 302-304.
PlatformStore ==
    /\ pc = "platform_store"
    /\ platforms_dfs' = [platforms_dfs EXCEPT ![platform_i] = all_games_data]
    /\ files' = to_csv(files, PlatformFile(platforms[platform_i]),
                       Table(platforms_dfs'[platform_i], <<>>, <<>>))
    /\ log' = Append(log, ExportEvent(platforms[platform_i]))
    /\ pc' = "platform_next"
    /\ UNCHANGED <<page, all_games_data, soup, page_data, df, platform_i,
                   main_platforms, main_platform_scores, cursor, exc>>

(***************************************************************************)
(* merge_platform_dfs(df, platforms_dfs) and the final export.  The frame  *)
(* being merged is df itself; its two new columns are main_platforms and   *)
(* main_platform_scores.                                                   *)
(***************************************************************************)
\* Line 333: the rows of main_df whose title equals the platform row's.
Lower(c) == IF c = "G" THEN "g" ELSE IF c = "X" THEN "x" ELSE c
LowerText(t) == [i \in DOMAIN t |-> Lower(t[i])]
matched_idx_nocase(main_df, platform_row) ==
    SelectSeq([i \in DOMAIN main_df |-> i],
              LAMBDA i : LowerText(main_df[i].title) = LowerText(platform_row.title))
matched_idx(main_df, platform_row) ==
    SelectSeq([i \in DOMAIN main_df |-> i],
              LAMBDA i : main_df[i].title = platform_row.title)

\* Lines 338-340, on the two lists of one row of main_df.
merge_match_unguarded(plats, scores, platform, metascore) ==
    [platforms |-> Append(plats, platform),
     platform_scores |-> Append(scores, metascore)]
merge_match_score_outside(plats, scores, platform, metascore) ==
    [platforms |-> IF platform \notin Range(plats)
                   THEN Append(plats, platform) ELSE plats,
     platform_scores |-> Append(scores, metascore)]
merge_match(plats, scores, platform, metascore) ==
    IF platform \notin Range(plats)
    THEN [platforms |-> Append(plats, platform),
          platform_scores |-> Append(scores, metascore)]
    ELSE [platforms |-> plats, platform_scores |-> scores]

\* Lines 348-353 and 325-326: the call, and the two columns of empty lists.
MergeBegin ==
    /\ pc = "platform_next"
    /\ platform_i = Len(platforms)
    /\ main_platforms' = [i \in DOMAIN df |-> <<>>]
    /\ main_platform_scores' = [i \in DOMAIN df |-> <<>>]
    /\ cursor' = [platform |-> 1, row |-> 1, match |-> 1]
    /\ pc' = "merge"
    /\ UNCHANGED <<page, all_games_data, soup, page_data, df, platform_i,
                   platforms_dfs, files, exc, log>>

\* The loops of lines 329, 331 and 336 stand at cursor.
InPlatform == pc = "merge" /\ cursor.platform <= Len(platforms)
platform_df == platforms_dfs[cursor.platform]
InRow == InPlatform /\ cursor.row <= Len(platform_df)
platform_row == platform_df[cursor.row]

\* Line 333 on a frame built from no records: it has no "title" column.
MergeKeyError ==
    /\ InRow
    /\ df = <<>>
    /\ exc' = "KeyError"
    /\ pc' = "aborted"
    /\ UNCHANGED <<page, all_games_data, soup, page_data, df, platform_i,
                   platforms_dfs, main_platforms, main_platform_scores,
                   cursor, files, log>>

\* Lines 336-340: one (platform row, matching main row) step.
MergeMatch ==
    /\ InRow
    /\ df # <<>>
    /\ cursor.match <= Len(matched_idx(df, platform_row))
    /\ LET i == matched_idx(df, platform_row)[cursor.match]
           lists == merge_match(main_platforms[i], main_platform_scores[i],
                                platforms[cursor.platform], platform_row.metascore)
       IN  /\ main_platforms' = [main_platforms EXCEPT ![i] = lists.platforms]
           /\ main_platform_scores' =
                  [main_platform_scores EXCEPT ![i] = lists.platform_scores]
    /\ cursor' = [cursor EXCEPT !.match = cursor.match + 1]
    /\ UNCHANGED <<pc, page, all_games_data, soup, page_data, df, platform_i,
                   platforms_dfs, files, exc, log>>

\* Line 331: the next row of the platform's frame.
MergeNextRow ==
    /\ InRow
    /\ df # <<>>
    /\ cursor.match > Len(matched_idx(df, platform_row))
    /\ cursor' = [cursor EXCEPT !.row = cursor.row + 1, !.match = 1]
    /\ UNCHANGED <<pc, page, all_games_data, soup, page_data, df, platform_i,
                   platforms_dfs, main_platforms, main_platform_scores,
                   files, exc, log>>

\* Line 329: the next platform of the dictionary.
MergeNextPlatform ==
    /\ InPlatform
    /\ cursor.row > Len(platform_df)
    /\ cursor' = [platform |-> cursor.platform + 1, row |-> 1, match |-> 1]
    /\ UNCHANGED <<pc, page, all_games_data, soup, page_data, df, platform_i,
                   platforms_dfs, main_platforms, main_platform_scores,
                   files, exc, log>>

\* Lines 343 and 353-358: the merged frame is returned and exported.
MergeReturn ==
    /\ pc = "merge"
    /\ cursor.platform > Len(platforms)
    /\ files' = to_csv(files, MainFile,
                       Table(df, main_platforms, main_platform_scores))
    /\ log' = Append(log, ExportEvent("merged"))
    /\ pc' = "done"
    /\ UNCHANGED <<page, all_games_data, soup, page_data, df, platform_i,
                   platforms_dfs, main_platforms, main_platform_scores,
                   cursor, exc>>

Next ==
    \/ BaselineIteration
    \/ BaselineExport
    \/ PlatformBegin
    \/ PlatformIteration
    \/ PlatformStore
    \/ MergeBegin
    \/ MergeKeyError
    \/ MergeMatch
    \/ MergeNextRow
    \/ MergeNextPlatform
    \/ MergeReturn

Spec == Init /\ [][Next]_vars

(***************************************************************************)
(* The loops have no page limit.  Past the pages the model tracks, a page  *)
(* with listings is fetched and extracted as before, and the loop goes on; *)
(* the page number and the accumulated list are no longer tracked.         *)
(***************************************************************************)
FetchBeyond ==
    /\ pc \in {"baseline_loop", "platform_loop"}
    /\ Fetched = MaxFetches
    /\ \E response \in Responses :
          /\ IsPageWithListings(response)
          /\ soup' = fetch_and_parse(response)
          /\ page_data' = extract_game_data(soup')
    /\ UNCHANGED <<pc, page, all_games_data, df, platform_i, platforms_dfs,
                   main_platforms, main_platform_scores, cursor, files, exc,
                   log>>

NextLive == Next \/ FetchBeyond

\* The script runs on as long as it has a next statement.
LiveSpec == Init /\ [][NextLive]_vars /\ WF_vars(NextLive)

(***************************************************************************)
(* extract_game_data on its own: called once on a page whose listings have *)
(* each sub-fragment missing, present without text, present with blank     *)
(* text, or present with text.                                             *)
(***************************************************************************)
TitleSections ==
    {Absent,
     Section(<<>>),
     Section(<<<<"1", ".", " ">>>>),
     Section(<<<<"1", ",", "2", "3", "4", ".", " ", "S", "G">>>>),
     Section(<<<<" ", "S", "G">>>>),
     Section(<<<<"1", "2", "3", "4", ".", "S">>>>)}

MetaSections ==
    {Absent,
     Section(<<>>),
     Section(<<<<"Jan", " ", "5", ",", " ", "2020">>, <<" ">>,
               <<"Rated", " ", "M", " ", "for", " ", "Mature">>>>),
     Section(<<<<"Feb", " ", "30", ",", " ", "2020">>, <<"Rated", " ">>>>),
     Section(<<<<"PS5">>, <<"Rated", " ">>, <<"T">>>>)}

DescriptionSections ==
    {Absent, Section(<<>>), Section(<<<<" ">>>>), Section(<<<<"A", " ", "game">>>>)}

MetascoreSections ==
    {Absent, Section(<<>>), Section(<<<<"85">>>>), Section(<<<<"tbd">>>>)}

Listings ==
    [title_section : TitleSections, meta_info_section : MetaSections,
     description_section : DescriptionSections,
     metascore_section : MetascoreSections]

ExtractInit ==
    /\ pc = "extract_game_data"
    /\ soup \in {BeautifulSoup(doc) :
                   doc \in UNION {[1..n -> Listings] : n \in 0..MaxListings}}
    /\ page = 1
    /\ all_games_data = <<>>
    /\ page_data = <<>>
    /\ df = <<>>
    /\ platform_i = 0
    /\ platforms_dfs = <<>>
    /\ main_platforms = <<>>
    /\ main_platform_scores = <<>>
    /\ cursor = [platform |-> 0, row |-> 0, match |-> 0]
    /\ files = [name \in FileNames |-> NotWritten]
    /\ exc = "none"
    /\ log = <<>>

ExtractCall ==
    /\ pc = "extract_game_data"
    /\ page_data' = extract_game_data(soup)
    /\ pc' = "extracted"
    /\ UNCHANGED <<page, all_games_data, soup, df, platform_i, platforms_dfs,
                   main_platforms, main_platform_scores, cursor, files, exc,
                   log>>

ExtractSpec == ExtractInit /\ [][ExtractCall]_vars

(***************************************************************************)
(* Properties, read off the log of requests and exports.                   *)
(***************************************************************************)
\* The scopes in the order the script runs them: 0 is the unfiltered
\* listing, j >= 1 the j-th platform.
ScopeName(j) == IF j = 0 THEN AllGames ELSE platforms[j]
ScopeIndexes == 0..Len(platforms)

FetchesOf(j) ==
    SelectSeq(log, LAMBDA e : e.ev = "fetch" /\ e.scope = ScopeName(j))

\* A page whose fetch fails: no response at all, or a status other than 200.
FetchFailed(response) == response.raised \/ response.status_code # 200

\* A page whose fetch fails or that holds no listing fragment.
StopPage(response) == FetchFailed(response) \/ response.content = <<>>

\* The records of the pages of a sequence of fetches, in page order.
RECURSIVE RecordsOf(_)
RecordsOf(fetches) ==
    IF fetches = <<>> THEN <<>>
    ELSE IF StopPage(Head(fetches).response) THEN RecordsOf(Tail(fetches))
    ELSE extract_game_data(BeautifulSoup(Head(fetches).response.content))
             \o RecordsOf(Tail(fetches))

InLoop == pc \in {"baseline_loop", "platform_loop"}
LoopRuns(j) == InLoop /\ platform_i = j
LoopEnded(j) == j < platform_i \/ (j = platform_i /\ ~InLoop)
Stored(j) ==
    IF j = 0 THEN files[MainFile].written
    ELSE files[PlatformFile(platforms[j])].written
StoredRecords(j) == IF j = 0 THEN df ELSE platforms_dfs[j]

\* C1: in every scope the pages requested are 1, 2, ..., in order; no page
\* before the last requested one failed or was empty (nothing is fetched
\* after the stopping page); the loop has ended exactly when the last page
\* requested failed or was empty, so that it made k requests when page k is
\* the first such page; and the accumulated records are the records of the
\* pages before it, in page order.
C1_PaginationStopsAtFirstStopPage ==
    \A j \in 0..platform_i :
        LET f == FetchesOf(j)
        IN  /\ \A n \in DOMAIN f : f[n].page = n
            /\ \A n \in 1..(Len(f) - 1) : ~StopPage(f[n].response)
            /\ LoopEnded(j) <=> (f # <<>> /\ StopPage(f[Len(f)].response))
            /\ j = platform_i => all_games_data = RecordsOf(f)
            /\ Stored(j) => StoredRecords(j) = RecordsOf(f)

\* A scope made three requests, the third of which stopped it, and holds the
\* records of the first two pages.
C1_Witness ==
    \E j \in 0..platform_i :
        /\ Len(FetchesOf(j)) = 3
        /\ LoopEnded(j)
        /\ j = platform_i
        /\ Len(all_games_data) = 4

\* C2: a fetch that fails, by a status other than 200 or by a failure of the
\* connection, stops the loop of its scope and nothing else: no exception
\* reaches the script, the records of the scope are kept, and the script is
\* at the step that follows the loop (the export of the scope).
C2_FetchFailureOnlyStopsItsScope ==
    \A n \in DOMAIN log :
        (log[n].ev = "fetch" /\ FetchFailed(log[n].response)) =>
            /\ exc # "ConnectionError"
            /\ n = Len(log) =>
                   /\ pc \in {"baseline_export", "platform_store"}
                   /\ all_games_data = RecordsOf(FetchesOf(platform_i))

\* C7: scopes that stop, early or on their first page, never abort the run:
\* when the loop of every scope has stopped on a page that failed to load or
\* held no listing, the run goes on through the merge to the final export.
C7_StoppedScopesNeverAbortTheRun ==
    (\A j \in ScopeIndexes :
        LET f == FetchesOf(j)
        IN  f # <<>> /\ StopPage(f[Len(f)].response) /\ ~f[Len(f)].response.raised)
    => pc # "aborted"

\* C3 as stated: a pagination loop that runs eventually stops, whatever the
\* pages are.
C3_EveryLoopTerminates == \A j \in ScopeIndexes : LoopRuns(j) ~> ~LoopRuns(j)

\* C3 amended: an iteration either ends the loop, and does so exactly on a
\* page that failed or holds no listing, or it extracts at least one record,
\* appends the page's records and moves to the next page; nothing else ends
\* the loop.
C3_IterationStopsOrAddsRecords ==
    [][InLoop =>
        \/ /\ ~InLoop'
           /\ log' # log
           /\ StopPage(log'[Len(log')].response)
        \/ /\ pc' = pc
           /\ Len(page_data') >= 1
           /\ log' # log =>
                  /\ ~StopPage(log'[Len(log')].response)
                  /\ all_games_data' = all_games_data \o page_data'
                  /\ page' = page + 1]_vars

\* A loop is still running after every page the model tracks had listings.
C3_Witness == InLoop /\ Fetched = MaxFetches /\ Len(all_games_data) >= MaxFetches

(***************************************************************************)
(* The merge.                                                              *)
(***************************************************************************)
Merging == pc \in {"merge", "done"}

\* The rows of the j-th platform's frame whose title is the title.
RowsTitled(j, title) ==
    SelectSeq(platforms_dfs[j], LAMBDA row : row.title = title)

PositionsOf(plats, platform) == {k \in DOMAIN plats : plats[k] = platform}

\* C4: whatever the number of rows of a platform that carry the title of a
\* row of the main frame, the platform stands in that row's platforms at
\* most once, and exactly once when the merge is over and there is such a
\* row; the score at its position is the metascore of the first such row of
\* the platform's frame.
C4_PlatformOnceWithFirstScore ==
    Merging =>
        \A i \in DOMAIN df : \A j \in DOMAIN platforms :
            LET at == PositionsOf(main_platforms[i], platforms[j])
                titled == RowsTitled(j, df[i].title)
            IN  /\ Cardinality(at) <= 1
                /\ \A k \in at :
                      /\ titled # <<>>
                      /\ k \in DOMAIN main_platform_scores[i]
                      /\ main_platform_scores[i][k] = titled[1].metascore
                /\ (pc = "done" /\ titled # <<>>) => Cardinality(at) = 1

\* The merge is over; a platform's frame holds two rows with the title of a
\* row of the main frame and different metascores.
C4_Witness ==
    /\ pc = "done"
    /\ \E i \in DOMAIN df : \E j \in DOMAIN platforms :
          /\ Len(RowsTitled(j, df[i].title)) >= 2
          /\ RowsTitled(j, df[i].title)[1].metascore
                 # RowsTitled(j, df[i].title)[2].metascore
          /\ platforms[j] \in Range(main_platforms[i])

\* C5: at every step of the merge and in its result, the two lists of every
\* row of the main frame have the same length and no platform stands twice
\* in platforms.
C5_ListsParallelWithoutDuplicates ==
    Merging =>
        \A i \in DOMAIN df :
            /\ Len(main_platforms[i]) = Len(main_platform_scores[i])
            /\ \A k, l \in DOMAIN main_platforms[i] :
                  main_platforms[i][k] = main_platforms[i][l] => k = l

\* A match step met a row of the main frame that already had the platform:
\* the main frame or the platform's frame holds the title twice.
C5_Witness ==
    /\ pc = "merge"
    /\ cursor.platform \in DOMAIN platforms
    /\ cursor.row \in 2..Len(platform_df)
    /\ \E i \in DOMAIN df :
          /\ df[i].title = platform_row.title
          /\ platforms[cursor.platform] \in Range(main_platforms[i])
          /\ \E l \in DOMAIN df : l # i /\ df[l].title = df[i].title

\* The platforms, in list order, whose frame holds a row with the title.
PlatformsListing(title) ==
    LET js == SelectSeq([j \in DOMAIN platforms |-> j],
                        LAMBDA j : RowsTitled(j, title) # <<>>)
    IN  [k \in DOMAIN js |-> platforms[js[k]]]

\* C6: when the merge is over, the platforms of every row of the main frame
\* are the platforms, in list order, whose frame holds a row with exactly
\* that title; with only empty frames both lists of every row are empty.
C6_PlatformsAreThoseListingTheTitle ==
    pc = "done" =>
        \A i \in DOMAIN df :
            /\ main_platforms[i] = PlatformsListing(df[i].title)
            /\ (\A j \in DOMAIN platforms : platforms_dfs[j] = <<>>) =>
                   main_platforms[i] = <<>> /\ main_platform_scores[i] = <<>>

\* The main frame holds "Game X" and "game x"; a platform lists only
\* "Game X": the first row has it, the second has nothing.
C6_Witness ==
    /\ pc = "done"
    /\ \E i, l \in DOMAIN df :
          /\ df[i].title = GameX
          /\ df[l].title = Gamex
          /\ main_platforms[i] # <<>>
          /\ main_platforms[l] = <<>>
          /\ main_platform_scores[l] = <<>>

(***************************************************************************)
(* The collection of the platforms.                                        *)
(***************************************************************************)
ScopeIndex(scope) == CHOOSE j \in ScopeIndexes : ScopeName(j) = scope

ExportsOf(j) ==
    SelectSeq(log, LAMBDA e : e.ev = "export" /\ e.scope = ScopeName(j))

\* C8: the requests and exports of the log go through the scopes in list
\* order without ever returning to an earlier one, each platform is stored
\* at most once and, when the merge begins, exactly once; a platform's loop
\* that has made no request yet is at page 1 with no records; and the frame
\* stored for a platform holds the records of that platform's own pages and
\* nothing else.
C8_PlatformsInOrderAndIsolated ==
    /\ \A m, n \in DOMAIN log :
          (m < n /\ log[m].scope # "merged" /\ log[n].scope # "merged") =>
              ScopeIndex(log[m].scope) <= ScopeIndex(log[n].scope)
    /\ \A j \in DOMAIN platforms :
          /\ Len(ExportsOf(j)) <= 1
          /\ Merging => Len(ExportsOf(j)) = 1
          /\ (Len(ExportsOf(j)) = 1) <=> Stored(j)
          /\ (LoopRuns(j) /\ FetchesOf(j) = <<>>) =>
                 page = 1 /\ all_games_data = <<>>
          /\ Stored(j) =>
                 /\ platforms_dfs[j] = RecordsOf(FetchesOf(j))
                 /\ files[PlatformFile(platforms[j])].rows = RecordsOf(FetchesOf(j))

\* The second platform begins after a first platform that gathered records
\* and was stopped by a failed fetch.
C8_Witness ==
    /\ LoopRuns(2)
    /\ FetchesOf(2) = <<>>
    /\ platforms_dfs[1] # <<>>
    /\ FetchFailed(FetchesOf(1)[Len(FetchesOf(1))].response)

\* C9: the export of a platform is the very next thing the run does after
\* the request that stopped the platform's loop, so it comes after the
\* platform's last request and before any request of the next platform; and
\* when the merge begins, and from then on, every platform's file is written
\* and holds the platform's frame.
C9_PlatformExportedRightAfterItsLoop ==
    /\ \A n \in DOMAIN log :
          (/\ log[n].ev = "fetch"
           /\ log[n].scope # AllGames
           /\ StopPage(log[n].response)
           /\ ~log[n].response.raised) =>
              IF n = Len(log)
              THEN pc = "platform_store"
              ELSE log[n + 1] = ExportEvent(log[n].scope)
    /\ \A j \in DOMAIN platforms :
          (j < platform_i \/ (LoopEnded(j) /\ pc # "platform_store"
                                              /\ exc # "ConnectionError")) =>
              /\ Stored(j)
              /\ files[PlatformFile(platforms[j])].rows = platforms_dfs[j]
    /\ (Merging \/ exc = "KeyError") => \A j \in DOMAIN platforms : Stored(j)

\* The merge begins with both platforms' files written, one of them with
\* records.
C9_Witness ==
    /\ pc = "merge"
    /\ cursor = [platform |-> 1, row |-> 1, match |-> 1]
    /\ \A j \in DOMAIN platforms : Stored(j)
    /\ \E j \in DOMAIN platforms : files[PlatformFile(platforms[j])].rows # <<>>

(***************************************************************************)
(* The records of extract_game_data.                                       *)
(***************************************************************************)
\* C10: every record extract_game_data yields has the five fields, and none
\* of them is empty.
C10_EveryFieldNonEmpty ==
    pc = "extracted" =>
        /\ Len(page_data) = Len(find_all(soup))
        /\ \A n \in DOMAIN page_data :
              /\ DOMAIN page_data[n] = Fields
              /\ \A field \in Fields : page_data[n][field] # <<>>

====
